---- MODULE Spec2Model ----
(***************************************************************************)
(* Model of the ingestion core of agent.py: the scalar coercions           *)
(* (parse_float, parse_int, parse_date), the per-record mapping of         *)
(* ingest_record and the driver loop of ingest_json_file, run against a    *)
(* store of two tables (posts, comments) whose inserts commit one by one.  *)
(*                                                                         *)
(* JSON values, as json.load produces them, are tagged records:            *)
(*   [t |-> "null"], [t |-> "bool", b], [t |-> "int", n],                  *)
(*   [t |-> "float", h] (h in hundredths), [t |-> "str", s],               *)
(*   [t |-> "list", l] (l a sequence), [t |-> "obj", o] (o a function      *)
(*   from key strings to JSON values).                                     *)
(***************************************************************************)
EXTENDS Integers, Sequences, FiniteSets, TLC

VARIABLES data, posts, comments, nextPostId, pc, i, j, post_id, error, log

vars == <<data, posts, comments, nextPostId, pc, i, j, post_id, error, log>>

(***************************************************************************)
(* JSON values and the Python operations on them that the code uses.       *)
(***************************************************************************)
None == [t |-> "null"]
JBool(b) == [t |-> "bool", b |-> b]
JInt(n) == [t |-> "int", n |-> n]
JFloat(h) == [t |-> "float", h |-> h]
JStr(s) == [t |-> "str", s |-> s]
JList(l) == [t |-> "list", l |-> l]
JObj(o) == [t |-> "obj", o |-> o]

EmptyDict == JObj(<<>>)

IsNone(x) == x.t = "null"
IsStr(x) == x.t = "str"
IsList(x) == x.t = "list"
IsDict(x) == x.t = "obj"

\* Python truthiness: bool(x).
Truthy(x) ==
  CASE x.t = "null" -> FALSE
    [] x.t = "bool" -> x.b
    [] x.t = "int" -> x.n # 0
    [] x.t = "float" -> x.h # 0
    [] x.t = "str" -> Len(x.s) > 0
    [] x.t = "list" -> Len(x.l) > 0
    [] x.t = "obj" -> DOMAIN x.o # {}

\* k in d, for a dict d.
HasKey(d, k) == k \in DOMAIN d.o

\* d.get(k, default), for a dict d.
DictGet(d, k, default) == IF HasKey(d, k) THEN d.o[k] ELSE default

(***************************************************************************)
(* Strings: str.lower, the substring test, str.strip, str.replace and      *)
(* str.split(sep, 1)[-1].                                                  *)
(***************************************************************************)
Upper == <<"A", "B", "C", "D", "E", "F", "G", "H", "I", "J", "K", "L", "M",
           "N", "O", "P", "Q", "R", "S", "T", "U", "V", "W", "X", "Y", "Z">>
Lower == <<"a", "b", "c", "d", "e", "f", "g", "h", "i", "j", "k", "l", "m",
           "n", "o", "p", "q", "r", "s", "t", "u", "v", "w", "x", "y", "z">>

LowerChar(c) ==
  IF \E k \in 1..Len(Upper) : Upper[k] = c
    THEN Lower[CHOOSE k \in 1..Len(Upper) : Upper[k] = c]
    ELSE c

RECURSIVE StrLower(_)
StrLower(s) ==
  IF Len(s) = 0 THEN ""
  ELSE LowerChar(SubSeq(s, 1, 1)) \o StrLower(SubSeq(s, 2, Len(s)))

\* sub in s
StrContains(s, sub) ==
  \E k \in 1..(Len(s) - Len(sub) + 1) : SubSeq(s, k, k + Len(sub) - 1) = sub

\* s.find(sub) + 1, for a sub that occurs in s
StrFind(s, sub) ==
  CHOOSE k \in 1..(Len(s) - Len(sub) + 1) :
    /\ SubSeq(s, k, k + Len(sub) - 1) = sub
    /\ \A m \in 1..(k - 1) : SubSeq(s, m, m + Len(sub) - 1) # sub

\* s.split(sep, 1)[-1]
SplitLast(s, sep) ==
  IF StrContains(s, sep)
    THEN SubSeq(s, StrFind(s, sep) + Len(sep), Len(s))
    ELSE s

RECURSIVE StrStrip(_)
StrStrip(s) ==
  IF Len(s) = 0 THEN s
  ELSE IF SubSeq(s, 1, 1) = " " THEN StrStrip(SubSeq(s, 2, Len(s)))
  ELSE IF SubSeq(s, Len(s), Len(s)) = " " THEN StrStrip(SubSeq(s, 1, Len(s) - 1))
  ELSE s

\* s.replace(c, ""), for a one-character c
RECURSIVE StrRemove(_, _)
StrRemove(s, c) ==
  IF Len(s) = 0 THEN ""
  ELSE (IF SubSeq(s, 1, 1) = c THEN "" ELSE SubSeq(s, 1, 1))
       \o StrRemove(SubSeq(s, 2, Len(s)), c)

Digits == <<"0", "1", "2", "3", "4", "5", "6", "7", "8", "9">>

IsDigit(c) == \E k \in 1..Len(Digits) : Digits[k] = c
DigitVal(c) == (CHOOSE k \in 1..Len(Digits) : Digits[k] = c) - 1

AllDigits(s) == \A k \in 1..Len(s) : IsDigit(SubSeq(s, k, k))

RECURSIVE DigitsVal(_)
DigitsVal(s) ==
  IF Len(s) = 0 THEN 0
  ELSE 10 * DigitsVal(SubSeq(s, 1, Len(s) - 1)) + DigitVal(SubSeq(s, Len(s), Len(s)))

RECURSIVE NatStr(_)
NatStr(n) == IF n < 10 THEN Digits[n + 1] ELSE NatStr(n \div 10) \o Digits[(n % 10) + 1]

(***************************************************************************)
(* str(val), float(text) and int(val) as parse_float and parse_int use     *)
(* them.  A float is kept in hundredths; the texts of the model carry at   *)
(* most two fraction digits, signs, spaces, commas and no exponent.        *)
(***************************************************************************)
Hundred == 10 * 10

FracStr(h) ==
  IF h % 10 = 0 THEN Digits[(h \div 10) + 1]
  ELSE Digits[(h \div 10) + 1] \o Digits[(h % 10) + 1]

AbsStr(h) == NatStr(h \div Hundred) \o "." \o FracStr(h % Hundred)

\* str(val)
PyStr(val) ==
  CASE val.t = "null" -> "None"
    [] val.t = "bool" -> IF val.b THEN "True" ELSE "False"
    [] val.t = "int" -> IF val.n < 0 THEN "-" \o NatStr(-val.n) ELSE NatStr(val.n)
    [] val.t = "float" -> IF val.h < 0 THEN "-" \o AbsStr(-val.h) ELSE AbsStr(val.h)
    [] val.t = "str" -> val.s
    [] val.t = "list" -> IF Len(val.l) = 0 THEN "[]" ELSE "[...]"
    [] val.t = "obj" -> IF DOMAIN val.o = {} THEN "{}" ELSE "{...}"

HasSign(s) == Len(s) > 0 /\ SubSeq(s, 1, 1) \in {"+", "-"}
Unsigned(s) == IF HasSign(s) THEN SubSeq(s, 2, Len(s)) ELSE s
SignOf(s) == IF Len(s) > 0 /\ SubSeq(s, 1, 1) = "-" THEN -1 ELSE 1

\* the digits before and after the decimal point of an unsigned numeral
WholePart(u) == IF StrContains(u, ".") THEN SubSeq(u, 1, StrFind(u, ".") - 1) ELSE u
FracPart(u) == IF StrContains(u, ".") THEN SubSeq(u, StrFind(u, ".") + 1, Len(u)) ELSE ""

IsDecimal(u) ==
  /\ AllDigits(WholePart(u))
  /\ AllDigits(FracPart(u))
  /\ Len(WholePart(u)) + Len(FracPart(u)) > 0

FracVal(f) == DigitsVal(SubSeq(f \o "00", 1, 2))

\* float(text): [ok |-> FALSE] stands for ValueError
PyFloat(text) ==
  LET u == Unsigned(StrStrip(text)) IN
  IF IsDecimal(u)
    THEN [ok |-> TRUE,
          v |-> SignOf(StrStrip(text)) * (DigitsVal(WholePart(u)) * Hundred + FracVal(FracPart(u)))]
    ELSE [ok |-> FALSE]

\* parse_float with the commas left in the text
parse_floatKeepCommas(val) ==
  IF IsNone(val) THEN None
  ELSE LET f == PyFloat(PyStr(val)) IN
       IF f.ok THEN JFloat(f.v) ELSE None

parse_float(val) ==
  IF IsNone(val) THEN None
  ELSE LET f == PyFloat(StrRemove(PyStr(val), ",")) IN
       IF f.ok THEN JFloat(f.v) ELSE None

\* int(val): exc is "none", "ValueError" or "TypeError"
PyInt(val) ==
  CASE val.t = "int" -> [exc |-> "none", v |-> val.n]
    [] val.t = "bool" -> [exc |-> "none", v |-> IF val.b THEN 1 ELSE 0]
    [] val.t = "float" ->
         [exc |-> "none",
          v |-> IF val.h < 0 THEN -((-val.h) \div Hundred) ELSE val.h \div Hundred]
    [] val.t = "str" ->
         LET u == Unsigned(StrStrip(val.s)) IN
         IF Len(u) > 0 /\ AllDigits(u)
           THEN [exc |-> "none", v |-> SignOf(StrStrip(val.s)) * DigitsVal(u)]
           ELSE [exc |-> "ValueError"]
    [] OTHER -> [exc |-> "TypeError"]

\* parse_int catches ValueError only: [exc |-> "TypeError"] leaves the function
parse_int(val) ==
  IF IsNone(val) THEN [exc |-> "none", v |-> None]
  ELSE LET n == PyInt(val) IN
       CASE n.exc = "none" -> [exc |-> "none", v |-> JInt(n.v)]
         [] n.exc = "ValueError" -> [exc |-> "none", v |-> None]
         [] OTHER -> [exc |-> n.exc]

(***************************************************************************)
(* dateutil's parser.parse(text, fuzzy=True) followed by                   *)
(* strftime('%Y-%m-%d'), for the two shapes the data carries: an ISO date  *)
(* (optionally followed by a time) and "Month D, YYYY".  Any other text    *)
(* of the model has no digit and no date word, for which the parser        *)
(* raises; [ok |-> FALSE] stands for that exception.                       *)
(***************************************************************************)
Months == <<"january", "february", "march", "april", "may", "june", "july",
            "august", "september", "october", "november", "december">>

IsMonth(w) == \E k \in 1..Len(Months) : Months[k] = StrLower(w)
MonthNo(w) == CHOOSE k \in 1..Len(Months) : Months[k] = StrLower(w)

Pad2(n) == IF n < 10 THEN "0" \o NatStr(n) ELSE NatStr(n)

IsIsoDate(s) ==
  /\ Len(s) >= 10
  /\ AllDigits(SubSeq(s, 1, 4))
  /\ SubSeq(s, 5, 5) = "-"
  /\ AllDigits(SubSeq(s, 6, 7))
  /\ SubSeq(s, 8, 8) = "-"
  /\ AllDigits(SubSeq(s, 9, 10))
  /\ DigitsVal(SubSeq(s, 6, 7)) \in 1..12
  /\ DigitsVal(SubSeq(s, 9, 10)) \in 1..31
  /\ (Len(s) > 10 => SubSeq(s, 11, 11) = " ")

\* "Month D, YYYY"
IsLongDate(s) ==
  /\ StrContains(s, " ")
  /\ StrContains(s, ", ")
  /\ LET w == SubSeq(s, 1, StrFind(s, " ") - 1)
         d == SubSeq(s, StrFind(s, " ") + 1, StrFind(s, ", ") - 1)
         y == SubSeq(s, StrFind(s, ", ") + 2, Len(s))
     IN /\ IsMonth(w)
        /\ Len(d) \in 1..2 /\ AllDigits(d) /\ DigitsVal(d) \in 1..31
        /\ Len(y) = 4 /\ AllDigits(y)

LongDateIso(s) ==
  LET w == SubSeq(s, 1, StrFind(s, " ") - 1)
      d == SubSeq(s, StrFind(s, " ") + 1, StrFind(s, ", ") - 1)
      y == SubSeq(s, StrFind(s, ", ") + 2, Len(s))
  IN y \o "-" \o Pad2(MonthNo(w)) \o "-" \o Pad2(DigitsVal(d))

DateParse(text) ==
  CASE IsIsoDate(text) -> [ok |-> TRUE, v |-> SubSeq(text, 1, 10)]
    [] IsLongDate(text) -> [ok |-> TRUE, v |-> LongDateIso(text)]
    [] OTHER -> [ok |-> FALSE]

\* parse_date: every exception inside the try returns date_str as it then is
parse_date(date_str) ==
  IF ~Truthy(date_str) THEN None
  ELSE IF ~IsStr(date_str) THEN date_str
  ELSE LET rest == IF StrContains(date_str.s, " on ")
                     THEN SplitLast(date_str.s, " on ")
                     ELSE date_str.s
           dt == DateParse(StrStrip(rest))
       IN IF dt.ok THEN JStr(dt.v) ELSE JStr(rest)

(***************************************************************************)
(* ingest_record, first half: the mapping of a record to the posts row.    *)
(* A result is [exc |-> "none", row |-> ...] or [exc |-> <exception>].     *)
(***************************************************************************)
\* Classify with the reddit test moved ahead of the amazon test
ClassifyRedditFirst(source) ==
  CASE StrContains(StrLower(source), "reddit") -> "discussion-thread"
    [] StrContains(StrLower(source), "amazon") -> "product-review"
    [] StrContains(StrLower(source), "youtube") -> "video-platform"
    [] OTHER -> "unrecognized"

\* the three branch tests of the platform-specific mapping, in their order
Classify(source) ==
  CASE StrContains(StrLower(source), "amazon") -> "product-review"
    [] StrContains(StrLower(source), "reddit") -> "discussion-thread"
    [] StrContains(StrLower(source), "youtube") -> "video-platform"
    [] OTHER -> "unrecognized"

\* source = record.get("source", "unknown")
SourceOf(record) == DictGet(record, "source", JStr("unknown"))

\* the row as initialised before the platform-specific mapping
BlankPost(record) ==
  [source |-> SourceOf(record), title |-> None, created_at |-> None, asin |-> None,
   subreddit |-> None, url |-> None, description |-> None, channel_name |-> None,
   country_of_origin |-> None, price |-> None, currency |-> None,
   star_ratings |-> None, total_rating |-> None, raw_json |-> record]

AmazonPost(record) ==
  LET product_details == DictGet(record, "product_details", EmptyDict) IN
  IF ~IsDict(product_details) THEN [exc |-> "AttributeError"]
  ELSE LET total == parse_int(DictGet(product_details, "total_rating", None)) IN
       IF total.exc # "none" THEN [exc |-> total.exc]
       ELSE [exc |-> "none",
             row |-> [BlankPost(record) EXCEPT
                        !.asin = DictGet(record, "asin", None),
                        !.title = DictGet(product_details, "title", None),
                        !.country_of_origin = DictGet(product_details, "Country of Origin", None),
                        !.price = parse_float(DictGet(product_details, "price", None)),
                        !.currency = DictGet(product_details, "currency", None),
                        !.star_ratings = DictGet(product_details, "star_ratings", None),
                        !.total_rating = total.v]]

\* RedditPost with the title read from the 'title' key
RedditPostTitleKey(record) ==
  [exc |-> "none",
   row |-> [BlankPost(record) EXCEPT
              !.subreddit = DictGet(record, "subreddit", None),
              !.created_at = parse_date(DictGet(record, "created_at", None)),
              !.title = DictGet(record, "title", None)]]

RedditPost(record) ==
  [exc |-> "none",
   row |-> [BlankPost(record) EXCEPT
              !.subreddit = DictGet(record, "subreddit", None),
              !.created_at = parse_date(DictGet(record, "created_at", None)),
              !.title = DictGet(record, "content", None)]]

YoutubePost(record) ==
  [exc |-> "none",
   row |-> [BlankPost(record) EXCEPT
              !.title = DictGet(record, "title", None),
              !.url = DictGet(record, "url", None),
              !.channel_name = DictGet(record, "channel_name", None),
              !.created_at = parse_date(DictGet(record, "published_at", None)),
              !.description = DictGet(record, "description", None)]]

\* lines 272-308: record.get and source.lower() need a dict and a str
PostOf(record) ==
  IF ~IsDict(record) THEN [exc |-> "AttributeError"]
  ELSE IF ~IsStr(SourceOf(record)) THEN [exc |-> "AttributeError"]
  ELSE CASE Classify(SourceOf(record).s) = "product-review" -> AmazonPost(record)
         [] Classify(SourceOf(record).s) = "discussion-thread" -> RedditPost(record)
         [] Classify(SourceOf(record).s) = "video-platform" -> YoutubePost(record)
         [] OTHER -> [exc |-> "none", row |-> BlankPost(record)]

(***************************************************************************)
(* ingest_record, second half: the nested entries and the comments row of  *)
(* each.                                                                   *)
(***************************************************************************)
\* EntriesOf with the 'comments' key looked up first
EntriesOfCommentsFirst(record) ==
  IF HasKey(record, "comments") THEN record.o["comments"]
  ELSE IF HasKey(record, "reviews") THEN record.o["reviews"]
  ELSE JList(<<>>)

\* lines 330-334: the value the loop iterates over
EntriesOf(record) ==
  IF HasKey(record, "reviews") THEN record.o["reviews"]
  ELSE IF HasKey(record, "comments") THEN record.o["comments"]
  ELSE JList(<<>>)

\* the keys of a dict, as the str values its iteration yields
RECURSIVE KeysOf(_)
KeysOf(ks) ==
  IF ks = {} THEN <<>>
  ELSE LET k == CHOOSE x \in ks : TRUE IN <<JStr(k)>> \o KeysOf(ks \ {k})

\* for c in comments: a list yields its elements, a str its characters, a
\* dict its keys; None, a number or a bool is not iterable
IterOf(x) ==
  CASE x.t = "list" -> [exc |-> "none", items |-> x.l]
    [] x.t = "str" -> [exc |-> "none", items |-> [k \in 1..Len(x.s) |-> JStr(SubSeq(x.s, k, k))]]
    [] x.t = "obj" -> [exc |-> "none", items |-> KeysOf(DOMAIN x.o)]
    [] OTHER -> [exc |-> "TypeError"]

\* user_info = c.get("user_info") or {}
UserInfoOf(c) ==
  IF Truthy(DictGet(c, "user_info", None)) THEN DictGet(c, "user_info", None) ELSE EmptyDict

BlankComment(c, pid) ==
  [post_id |-> pid, author_name |-> None, content |-> None, rating |-> None,
   helpful_votes |-> None, karma |-> None, created_at |-> None,
   age_group |-> DictGet(UserInfoOf(c), "age_group", None),
   gender |-> DictGet(UserInfoOf(c), "gender", None),
   income_band |-> DictGet(UserInfoOf(c), "income_band", None)]

\* ShapeOf with the body test moved ahead of the review_author test
ShapeOfBodyFirst(c) ==
  CASE HasKey(c, "body") -> "discussion"
    [] HasKey(c, "review_author") -> "review"
    [] HasKey(c, "text") -> "video"
    [] OTHER -> "none"

\* lines 352-366: the shape of an entry, by the first key found
ShapeOf(c) ==
  CASE HasKey(c, "review_author") -> "review"
    [] HasKey(c, "body") -> "discussion"
    [] HasKey(c, "text") -> "video"
    [] OTHER -> "none"

\* ReviewComment with karma filled in as well
ReviewCommentWithKarma(c, pid) ==
  [exc |-> "none",
   row |-> [BlankComment(c, pid) EXCEPT
              !.author_name = DictGet(c, "review_author", None),
              !.content = DictGet(c, "content", None),
              !.rating = parse_float(DictGet(c, "review_star_rating", None)),
              !.helpful_votes = DictGet(c, "helpful_vote_statement", None),
              !.karma = parse_float(DictGet(c, "karma", None)),
              !.created_at = parse_date(DictGet(c, "review_date", None))]]

ReviewComment(c, pid) ==
  [exc |-> "none",
   row |-> [BlankComment(c, pid) EXCEPT
              !.author_name = DictGet(c, "review_author", None),
              !.content = DictGet(c, "content", None),
              !.rating = parse_float(DictGet(c, "review_star_rating", None)),
              !.helpful_votes = DictGet(c, "helpful_vote_statement", None),
              !.created_at = parse_date(DictGet(c, "review_date", None))]]

DiscussionComment(c, pid) ==
  LET k == parse_int(DictGet(c, "karma", None)) IN
  IF k.exc # "none" THEN [exc |-> k.exc]
  ELSE [exc |-> "none",
        row |-> [BlankComment(c, pid) EXCEPT
                   !.content = DictGet(c, "body", None),
                   !.author_name = DictGet(c, "author", None),
                   !.karma = k.v,
                   !.created_at = parse_date(DictGet(c, "created_at", None))]]

VideoComment(c, pid) ==
  [exc |-> "none",
   row |-> [BlankComment(c, pid) EXCEPT
              !.content = DictGet(c, "text", None),
              !.author_name = DictGet(c, "author_name", None),
              !.created_at = DictGet(c, "time", None)]]

\* lines 338-366: c.get and user_info.get need dicts
CommentOf(c, pid) ==
  IF ~IsDict(c) THEN [exc |-> "AttributeError"]
  ELSE IF ~IsDict(UserInfoOf(c)) THEN [exc |-> "AttributeError"]
  ELSE CASE ShapeOf(c) = "review" -> ReviewComment(c, pid)
         [] ShapeOf(c) = "discussion" -> DiscussionComment(c, pid)
         [] ShapeOf(c) = "video" -> VideoComment(c, pid)
         [] OTHER -> [exc |-> "none", row |-> BlankComment(c, pid)]

(***************************************************************************)
(* The inputs.  data is what json.load returned for the file, or Missing   *)
(* when the path does not exist.                                           *)
(***************************************************************************)
Missing == [t |-> "missing"]

Obj1(k1, v1) == JObj(k1 :> v1)
Obj2(k1, v1, k2, v2) == JObj(k1 :> v1 @@ k2 :> v2)

UserInfo == JObj([age_group |-> JStr("25-34"), gender |-> JStr("Female"),
                  income_band |-> JStr("Middle")])

Review ==
  JObj([review_author |-> JStr("A"), content |-> JStr("x"),
        review_star_rating |-> JStr("4,5"),
        review_date |-> JStr("Reviewed in India on March 3, 2023"),
        helpful_vote_statement |-> JStr("2 people found this helpful"),
        user_info |-> UserInfo])

RedditComment ==
  JObj([body |-> JStr("b"), author |-> JStr("u"), karma |-> JInt(-5),
        created_at |-> JStr("2024-02-01")])

YoutubeComment ==
  JObj([text |-> JStr("t"), author_name |-> JStr("v"),
        time |-> JStr("2024-03-01 10:00:00")])

\* an entry with none of review_author, body, text
Shapeless == JObj([author |-> JStr("n"), user_info |-> None])

\* an entry of every shape at once
AllShapes ==
  JObj([review_author |-> JStr("R"), body |-> JStr("B"), text |-> JStr("T"),
        review_star_rating |-> JFloat(350), karma |-> JStr("7"),
        review_date |-> JStr("soon"), time |-> JStr("later")])

BodyAndText ==
  JObj([body |-> JStr("B"), text |-> JStr("T"), karma |-> JStr("1,000"),
        created_at |-> JStr("posted on a whim")])

ProductDetails ==
  JObj("title" :> JStr("Lamp") @@ "Country of Origin" :> JStr("India")
       @@ "price" :> JStr("1,299.50") @@ "currency" :> JStr("USD")
       @@ "star_ratings" :> JStr("4") @@ "total_rating" :> JInt(120))

Amazon ==
  JObj([source |-> JStr("amazon_reviews_1"), asin |-> JStr("B00X"),
        product_details |-> ProductDetails, title |-> JStr("top"),
        reviews |-> JList(<<Review, Shapeless, Review>>)])

AmazonOnReddit ==
  JObj([source |-> JStr("Amazon-on-Reddit"), asin |-> JStr("B01Y"),
        subreddit |-> JStr("deals"), content |-> JStr("c"),
        reviews |-> JList(<<>>), comments |-> JList(<<RedditComment>>)])

Reddit ==
  JObj([source |-> JStr("reddit_1"), subreddit |-> JStr("tla"),
        created_at |-> JStr("2024-01-15"), content |-> JStr("the body"),
        title |-> JStr("a title"), asin |-> JStr("B02Z"),
        comments |-> JList(<<RedditComment, Review, BodyAndText>>)])

RedditYoutube ==
  JObj([source |-> JStr("REDDIT about youtube"), content |-> JStr("c2"),
        url |-> JStr("http://r"), created_at |-> JStr("not a date at all"),
        reviews |-> JList(<<YoutubeComment>>), comments |-> JList(<<RedditComment>>)])

Youtube ==
  JObj([source |-> JStr("YouTube_1"), title |-> JStr("Video"),
        url |-> JStr("http://y"), channel_name |-> JStr("Chan"),
        published_at |-> JStr("2024-05-06 07:08:09"), description |-> JStr("d"),
        created_at |-> JStr("2020-01-01"), subreddit |-> JStr("s"),
        comments |-> JList(<<YoutubeComment, AllShapes, Shapeless>>)])

Unrecognized ==
  JObj([source |-> JStr("tiktok"), title |-> JStr("t"), asin |-> JStr("a"),
        created_at |-> JStr("2024-01-01"),
        comments |-> JList(<<Shapeless, YoutubeComment>>)])

NoSource == JObj([title |-> JStr("t"), comments |-> JList(<<Review>>)])
EmptySource == JObj([source |-> JStr(""), comments |-> JList(<<>>)])
NullSource == JObj([source |-> None, comments |-> JList(<<Review>>)])
IntSource == JObj([source |-> JInt(7)])
NullDetails == JObj([source |-> JStr("amazon"), product_details |-> None])
NoDetails == JObj([source |-> JStr("amazon"), asin |-> JStr("B03")])
ListTotal ==
  JObj([source |-> JStr("amazon"),
        product_details |-> Obj1("total_rating", JList(<<JInt(1)>>))])
NullReviews == JObj([source |-> JStr("amazon"), reviews |-> None])
StrComments == JObj([source |-> JStr("reddit"), comments |-> JStr("hi")])
ObjComments == JObj([source |-> JStr("youtube"), comments |-> Obj1("a", RedditComment)])
StrEntry == JObj([source |-> JStr("reddit"), comments |-> JList(<<RedditComment, JStr("x"), RedditComment>>)])
StrUserInfo ==
  JObj([source |-> JStr("youtube"),
        comments |-> JList(<<Obj2("text", JStr("t"), "user_info", JStr("anon"))>>)])
ListKarma ==
  JObj([source |-> JStr("reddit"),
        comments |-> JList(<<RedditComment, Obj2("body", JStr("b"), "karma", JList(<<>>))>>)])

\* every record the model ingests on its own
Records ==
  {Amazon, AmazonOnReddit, Reddit, RedditYoutube, Youtube, Unrecognized,
   NoSource, EmptySource, NullSource, IntSource, NullDetails, NoDetails,
   ListTotal, NullReviews, StrComments, ObjComments, StrEntry, StrUserInfo,
   ListKarma}

\* the records that longer lists are built from
ListRecords ==
  {Amazon, AmazonOnReddit, Reddit, RedditYoutube, Unrecognized, NullSource,
   NullReviews, StrEntry}

MaxRecords == 2
MaxFirstId == 2

RECURSIVE ListsOf(_, _)
ListsOf(S, n) ==
  IF n = 0 THEN {<<>>}
  ELSE ListsOf(S, n - 1) \cup {Append(l, r) : l \in {m \in ListsOf(S, n - 1) : Len(m) = n - 1}, r \in S}

Inputs ==
  {JList(l) : l \in ListsOf(ListRecords, MaxRecords)}
    \cup {JList(<<r>>) : r \in Records}
    \cup {Amazon, None, JStr("[]"), JInt(0), Missing}

(***************************************************************************)
(* The store and the driver.                                               *)
(*   posts, comments : the rows of the two tables, in insertion order      *)
(*   nextPostId      : the next value of the posts id sequence             *)
(*   pc              : "load", "record" (before insert_post of data[i]),   *)
(*                     "comment" (before the j-th pass of the loop over    *)
(*                     the entries of data[i]), "done", "raised"           *)
(*   post_id         : the id insert_post returned for data[i]             *)
(*   error           : the exception that left ingest_json_file            *)
(*   log             : history of the committed inserts: which record and  *)
(*                     entry each came from, the post id it carried and    *)
(*                     the branch of the mapping that was taken            *)
(***************************************************************************)
Init ==
  /\ data \in Inputs
  /\ posts = <<>>
  /\ comments = <<>>
  /\ nextPostId \in 1..MaxFirstId
  /\ pc = "load"
  /\ i = 0
  /\ j = 0
  /\ post_id = 0
  /\ error = "none"
  /\ log = <<>>

Raise(e) ==
  /\ pc' = "raised"
  /\ error' = e

\* the items the loop of ingest_record runs over, for a record whose iteration starts
ItemsOf(record) == IterOf(EntriesOf(record)).items

\* Advance with the record index left where it is
AdvanceSameRecord(k) ==
  IF k < Len(ItemsOf(data.l[i]))
    THEN pc' = "comment" /\ i' = i /\ j' = k + 1
    ELSE IF i < Len(data.l)
      THEN pc' = "record" /\ i' = i /\ j' = 0
      ELSE pc' = "done" /\ i' = i /\ j' = 0

\* control after the k-th entry of data[i] is done (k = 0: after insert_post)
Advance(k) ==
  IF k < Len(ItemsOf(data.l[i]))
    THEN pc' = "comment" /\ i' = i /\ j' = k + 1
    ELSE IF i < Len(data.l)
      THEN pc' = "record" /\ i' = i + 1 /\ j' = 0
      ELSE pc' = "done" /\ i' = i /\ j' = 0

TopLevelErrorOther == "TypeError"

\* the exception of line 402
TopLevelError == "ValueError"

\* StoredPosts with the rows of unrecognized sources left out
StoredPostsKnownOnly(row) ==
  IF Classify(row.source.s) = "unrecognized" THEN posts
  ELSE Append(posts, [id |-> nextPostId, row |-> row])

\* the posts table after insert_post has committed row
StoredPosts(row) == Append(posts, [id |-> nextPostId, row |-> row])

\* ingest_json_file, lines 395-402
FileNotFound ==
  /\ pc = "load"
  /\ data = Missing
  /\ Raise("FileNotFoundError")
  /\ UNCHANGED <<data, posts, comments, nextPostId, i, j, post_id, log>>

NotAList ==
  /\ pc = "load"
  /\ data # Missing
  /\ ~IsList(data)
  /\ Raise(TopLevelError)
  /\ UNCHANGED <<data, posts, comments, nextPostId, i, j, post_id, log>>

StartLoop ==
  /\ pc = "load"
  /\ IsList(data)
  /\ IF Len(data.l) = 0
       THEN pc' = "done" /\ i' = 0
       ELSE pc' = "record" /\ i' = 1
  /\ UNCHANGED <<data, posts, comments, nextPostId, j, post_id, error, log>>

\* ingest_record, lines 272-308: the mapping raises before any insert
MappingRaises ==
  /\ pc = "record"
  /\ PostOf(data.l[i]).exc # "none"
  /\ Raise(PostOf(data.l[i]).exc)
  /\ UNCHANGED <<data, posts, comments, nextPostId, i, j, post_id, log>>

\* ReturnedId as the position of the record in the input
ReturnedIdIndex == i

\* the id insert_post returns: the value the sequence hands out
ReturnedId == nextPostId

\* ingest_record, lines 311-337: insert_post commits, then the loop starts
InsertPost ==
  /\ pc = "record"
  /\ PostOf(data.l[i]).exc = "none"
  /\ posts' = StoredPosts(PostOf(data.l[i]).row)
  /\ nextPostId' = nextPostId + 1
  /\ post_id' = ReturnedId
  /\ log' = Append(log, [kind |-> "post", rec |-> i, entry |-> 0, id |-> nextPostId,
                          branch |-> Classify(SourceOf(data.l[i]).s)])
  /\ IF IterOf(EntriesOf(data.l[i])).exc # "none"
       THEN Raise(IterOf(EntriesOf(data.l[i])).exc) /\ UNCHANGED <<i, j>>
       ELSE Advance(0) /\ UNCHANGED error
  /\ UNCHANGED <<data, comments>>

\* insert_post raises: nothing is committed
InsertPostFails ==
  /\ pc = "record"
  /\ PostOf(data.l[i]).exc = "none"
  /\ Raise("StorageError")
  /\ UNCHANGED <<data, posts, comments, nextPostId, i, j, post_id, log>>

\* one pass of the loop, lines 338-366: the mapping of the entry raises
EntryRaises ==
  /\ pc = "comment"
  /\ CommentOf(ItemsOf(data.l[i])[j], post_id).exc # "none"
  /\ Raise(CommentOf(ItemsOf(data.l[i])[j], post_id).exc)
  /\ UNCHANGED <<data, posts, comments, nextPostId, i, j, post_id, log>>

\* one pass of the loop, lines 338-381: insert_comment commits
InsertComment ==
  /\ pc = "comment"
  /\ CommentOf(ItemsOf(data.l[i])[j], post_id).exc = "none"
  /\ comments' = Append(comments, CommentOf(ItemsOf(data.l[i])[j], post_id).row)
  /\ log' = Append(log, [kind |-> "comment", rec |-> i, entry |-> j, id |-> post_id,
                          branch |-> ShapeOf(ItemsOf(data.l[i])[j])])
  /\ Advance(j)
  /\ UNCHANGED <<data, posts, nextPostId, post_id, error>>

\* InsertCommentFails with the rows of the current record rolled back
NotOfCurrentPost(c) == c.post_id # post_id
NotCurrentPost(p) == p.id # post_id
InsertCommentFailsRollback ==
  /\ pc = "comment"
  /\ CommentOf(ItemsOf(data.l[i])[j], post_id).exc = "none"
  /\ Raise("StorageError")
  /\ comments' = SelectSeq(comments, NotOfCurrentPost)
  /\ posts' = SelectSeq(posts, NotCurrentPost)
  /\ UNCHANGED <<data, nextPostId, i, j, post_id, log>>

\* insert_comment raises: nothing is committed
InsertCommentFails ==
  /\ pc = "comment"
  /\ CommentOf(ItemsOf(data.l[i])[j], post_id).exc = "none"
  /\ Raise("StorageError")
  /\ UNCHANGED <<data, posts, comments, nextPostId, i, j, post_id, log>>

Next ==
  \/ FileNotFound
  \/ NotAList
  \/ StartLoop
  \/ MappingRaises
  \/ InsertPost
  \/ InsertPostFails
  \/ EntryRaises
  \/ InsertComment
  \/ InsertCommentFails

Spec == Init /\ [][Next]_vars

(***************************************************************************)
(* Properties.                                                             *)
(***************************************************************************)
IsPostEvent(e) == e.kind = "post"
IsCommentEvent(e) == e.kind = "comment"
PostEvents == SelectSeq(log, IsPostEvent)
CommentEvents == SelectSeq(log, IsCommentEvent)

\* the log is the history of the two tables
LogMatchesStore ==
  /\ Len(PostEvents) = Len(posts)
  /\ Len(CommentEvents) = Len(comments)
  /\ \A k \in 1..Len(posts) : PostEvents[k].id = posts[k].id
  /\ \A k \in 1..Len(comments) : CommentEvents[k].id = comments[k].post_id

\* the record and the entry an event came from
RecordOf(e) == data.l[e.rec]
EntryOf(e) == ItemsOf(data.l[e.rec])[e.entry]

\* C1: the committed inserts follow the input order: records in list order, and
\* within a record the Post first (entry 0) and then the Comments in the order
\* of the nested entries.
C1_InsertsInInputOrder ==
  /\ LogMatchesStore
  /\ \A p, q \in 1..Len(log) :
       p < q => \/ log[p].rec < log[q].rec
                \/ log[p].rec = log[q].rec /\ log[p].entry < log[q].entry
  /\ \A q \in 1..Len(log) :
       IsCommentEvent(log[q]) =>
         \E p \in 1..(q - 1) : IsPostEvent(log[p]) /\ log[p].rec = log[q].rec

\* two records ingested, the first with three Comments after its Post
C1_Witness ==
  /\ pc = "done"
  /\ Len(data.l) = 2
  /\ Len(posts) = 2
  /\ \E q \in 1..Len(log) : log[q].rec = 1 /\ log[q].entry = 3

\* C2: every Comment row carries the id the store returned for the Post of the
\* record its entry is nested in, and that Post row is in the posts table.
C2_CommentsReferenceOwnPost ==
  /\ Len(CommentEvents) = Len(comments)
  /\ \A k \in 1..Len(comments) :
       \E p \in 1..Len(posts) :
         /\ posts[p].id = comments[k].post_id
         /\ PostEvents[p].rec = CommentEvents[k].rec
         /\ posts[p].row.raw_json = RecordOf(CommentEvents[k])
  /\ \A p, q \in 1..Len(posts) : p # q => posts[p].id # posts[q].id
  /\ pc = "comment" => \E p \in 1..Len(posts) : posts[p].id = post_id /\ PostEvents[p].rec = i

\* Comments of two different records, in a store whose first id is not 1
C2_Witness ==
  /\ Len(posts) = 2
  /\ posts[1].id = 2
  /\ \E k \in 1..Len(comments) : comments[k].post_id = posts[1].id
  /\ \E k \in 1..Len(comments) : comments[k].post_id = posts[2].id

\* C3: when the handling of record i raises, every later record whose own
\* mapping does not raise still gets its Post persisted.
C3_LaterRecordsStillHandled ==
  (pc = "raised" /\ IsList(data)) =>
    \A r \in (i + 1)..Len(data.l) :
      PostOf(data.l[r]).exc = "none" =>
        \E k \in 1..Len(PostEvents) : PostEvents[k].rec = r

\* C4: a top-level value that is not a list ends the run with ValueError, and
\* no Post and no Comment has been inserted; nothing else raises ValueError.
C4_NonListRaisesStoreUnchanged ==
  /\ (data # Missing /\ ~IsList(data)) =>
       /\ posts = <<>> /\ comments = <<>> /\ log = <<>>
       /\ pc \in {"load", "raised"}
       /\ pc = "raised" => error = "ValueError"
  /\ error = "ValueError" => (pc = "raised" /\ data # Missing /\ ~IsList(data))

\* a JSON object at the top level has been refused
C4_Witness ==
  /\ IsDict(data)
  /\ pc = "raised"
  /\ error = "ValueError"
  /\ posts = <<>>

\* C5: a run over a list of n records that returns has inserted exactly n
\* Posts, the k-th for the k-th record, whatever its classification; a run over
\* the empty list inserts nothing and raises nothing.
C5_OnePostPerRecord ==
  /\ pc = "done" =>
       /\ error = "none"
       /\ Len(posts) = Len(data.l)
       /\ \A k \in 1..Len(posts) : posts[k].row.raw_json = data.l[k]
  /\ data = JList(<<>>) =>
       /\ posts = <<>> /\ comments = <<>>
       /\ error = "none"
       /\ pc \in {"load", "done"}

\* a completed run of two records, one of them of an unrecognized source
C5_Witness ==
  /\ pc = "done"
  /\ Len(data.l) = 2
  /\ Len(posts) = 2
  /\ \E k \in 1..2 : PostEvents[k].branch = "unrecognized"

\* the entries of record r that carry review_author, body or text
ShapedEntries(r) ==
  {e \in 1..Len(ItemsOf(data.l[r])) : ShapeOf(ItemsOf(data.l[r])[e]) # "none"}

RECURSIVE ShapedUpTo(_)
ShapedUpTo(r) == IF r = 0 THEN 0 ELSE ShapedUpTo(r - 1) + Cardinality(ShapedEntries(r))

\* C6: an entry with none of review_author, body, text produces no Comment row:
\* no row comes from such an entry, and after a completed run the number of
\* Comment rows is the number of entries that carry one of the three keys.
C6_ShapelessEntriesDropped ==
  /\ \A k \in 1..Len(CommentEvents) : ShapeOf(EntryOf(CommentEvents[k])) # "none"
  /\ pc = "done" => Len(comments) = ShapedUpTo(Len(data.l))

\* C7: the mapping of a record and of its entries never raises: a run ends
\* only normally, on the top-level check or on a failure of the store.
C7_NormalizeNeverRaises ==
  error \notin {"AttributeError", "TypeError"}

\* C8: every Post row has a source that is not null: the record's 'source'
\* when that is truthy, "unknown" when the key is absent or its value falsy.
C8_SourceDefaultsToUnknown ==
  \A k \in 1..Len(posts) :
    LET src == DictGet(posts[k].row.raw_json, "source", None) IN
    /\ posts[k].row.source # None
    /\ posts[k].row.source = IF Truthy(src) THEN src ELSE JStr("unknown")

\* w occurs in s, letter case ignored
ContainsCI(s, w) ==
  \E k \in 1..(Len(s) - Len(w) + 1) : StrLower(SubSeq(s, k, k + Len(w) - 1)) = w

\* the variant of a source string by first match in the order amazon, reddit, youtube
VariantOf(s) ==
  IF ContainsCI(s, "amazon") THEN "product-review"
  ELSE IF ContainsCI(s, "reddit") THEN "discussion-thread"
  ELSE IF ContainsCI(s, "youtube") THEN "video-platform"
  ELSE "unrecognized"

\* C9: the branch of the mapping taken for a Post is decided by the first of
\* "amazon", "reddit", "youtube" that its source contains in any letter case,
\* and is the unrecognized one when it contains none.
C9_ClassificationPriority ==
  \A k \in 1..Len(PostEvents) :
    LET src == SourceOf(RecordOf(PostEvents[k])).s
        branch == PostEvents[k].branch
    IN /\ ContainsCI(src, "amazon") => branch = "product-review"
       /\ (~ContainsCI(src, "amazon") /\ ContainsCI(src, "reddit")) =>
            branch = "discussion-thread"
       /\ (~ContainsCI(src, "amazon") /\ ~ContainsCI(src, "reddit")
             /\ ContainsCI(src, "youtube")) => branch = "video-platform"
       /\ (~ContainsCI(src, "amazon") /\ ~ContainsCI(src, "reddit")
             /\ ~ContainsCI(src, "youtube")) => branch = "unrecognized"

\* "Amazon-on-Reddit" taken as product-review, "REDDIT about youtube" as discussion-thread
C9_Witness ==
  \E k, m \in 1..Len(PostEvents) :
    /\ SourceOf(RecordOf(PostEvents[k])) = JStr("Amazon-on-Reddit")
    /\ PostEvents[k].branch = "product-review"
    /\ posts[k].row.asin = JStr("B01Y")
    /\ SourceOf(RecordOf(PostEvents[m])) = JStr("REDDIT about youtube")
    /\ PostEvents[m].branch = "discussion-thread"

Blank(row, cols) == \A c \in cols : row[c] = None

DetailsOf(r) == IF HasKey(r, "product_details") THEN r.o["product_details"] ELSE EmptyDict

\* C10: a Post row fills the columns of its variant from the keys the variant
\* names and leaves every other column null; a source of no variant gives a
\* row with source and raw_json only, and no error.
C10_PostColumnsByVariant ==
  /\ \A k \in 1..Len(posts) :
       LET row == posts[k].row
           r == RecordOf(PostEvents[k])
           variant == VariantOf(row.source.s)
       IN /\ row.raw_json = r
          /\ row.source = SourceOf(r)
          /\ variant = "product-review" =>
               /\ row.asin = DictGet(r, "asin", None)
               /\ row.title = DictGet(DetailsOf(r), "title", None)
               /\ row.country_of_origin = DictGet(DetailsOf(r), "Country of Origin", None)
               /\ row.price = parse_float(DictGet(DetailsOf(r), "price", None))
               /\ row.currency = DictGet(DetailsOf(r), "currency", None)
               /\ row.star_ratings = DictGet(DetailsOf(r), "star_ratings", None)
               /\ row.total_rating = parse_int(DictGet(DetailsOf(r), "total_rating", None)).v
               /\ Blank(row, {"created_at", "subreddit", "url", "description", "channel_name"})
          /\ variant = "discussion-thread" =>
               /\ row.subreddit = DictGet(r, "subreddit", None)
               /\ row.created_at = parse_date(DictGet(r, "created_at", None))
               /\ row.title = DictGet(r, "content", None)
               /\ Blank(row, {"asin", "url", "description", "channel_name", "country_of_origin",
                              "price", "currency", "star_ratings", "total_rating"})
          /\ variant = "video-platform" =>
               /\ row.title = DictGet(r, "title", None)
               /\ row.url = DictGet(r, "url", None)
               /\ row.channel_name = DictGet(r, "channel_name", None)
               /\ row.description = DictGet(r, "description", None)
               /\ row.created_at = parse_date(DictGet(r, "published_at", None))
               /\ Blank(row, {"asin", "subreddit", "country_of_origin", "price", "currency",
                              "star_ratings", "total_rating"})
          /\ variant = "unrecognized" =>
               Blank(row, {"title", "created_at", "asin", "subreddit", "url", "description",
                           "channel_name", "country_of_origin", "price", "currency",
                           "star_ratings", "total_rating"})
  /\ (pc = "record" /\ IsStr(SourceOf(data.l[i]))
        /\ VariantOf(SourceOf(data.l[i]).s) = "unrecognized") =>
       PostOf(data.l[i]).exc = "none"

\* a reddit record that also has a 'title' key, and a record of an unrecognized
\* source that has keys of the other variants, both persisted
C10_Witness ==
  /\ Len(posts) = 2
  /\ posts[1].row.raw_json = Reddit
  /\ posts[1].row.title = JStr("the body")
  /\ posts[1].row.created_at = JStr("2024-01-15")
  /\ posts[2].row.raw_json = Unrecognized
  /\ posts[2].row.title = None

\* the value given to parse_date and the value stored, for every row whose
\* created_at came from parse_date
DateUses ==
  {<<DictGet(RecordOf(PostEvents[k]),
             IF PostEvents[k].branch = "discussion-thread" THEN "created_at" ELSE "published_at",
             None),
     posts[k].row.created_at>> :
     k \in {m \in 1..Len(posts) :
              PostEvents[m].branch \in {"discussion-thread", "video-platform"}}}
  \cup
  {<<DictGet(EntryOf(CommentEvents[k]),
             IF CommentEvents[k].branch = "review" THEN "review_date" ELSE "created_at",
             None),
     comments[k].created_at>> :
     k \in {m \in 1..Len(comments) : CommentEvents[m].branch \in {"review", "discussion"}}}

\* the date parse that parse_date attempts on a text fails
DateFails(text) == ~DateParse(StrStrip(SplitLast(text, " on "))).ok

\* C11: for a non-empty string whose date parse fails, the stored date is the
\* original string, trimmed and otherwise unchanged, also when it contains " on ".
C11_FailedDateKeepsInput ==
  \A u \in DateUses :
    (IsStr(u[1]) /\ Len(u[1].s) > 0 /\ DateFails(u[1].s)) => u[2] = JStr(StrStrip(u[1].s))

\* the values the step about to be taken gives to parse_int and to parse_float
IntArgs ==
  IF pc = "record" /\ IsDict(data.l[i]) /\ IsStr(SourceOf(data.l[i]))
       /\ Classify(SourceOf(data.l[i]).s) = "product-review" /\ IsDict(DetailsOf(data.l[i]))
    THEN {DictGet(DetailsOf(data.l[i]), "total_rating", None)}
  ELSE IF pc = "comment" /\ IsDict(ItemsOf(data.l[i])[j])
            /\ IsDict(UserInfoOf(ItemsOf(data.l[i])[j]))
            /\ ShapeOf(ItemsOf(data.l[i])[j]) = "discussion"
    THEN {DictGet(ItemsOf(data.l[i])[j], "karma", None)}
  ELSE {}

FloatArgs ==
  IF pc = "record" /\ IsDict(data.l[i]) /\ IsStr(SourceOf(data.l[i]))
       /\ Classify(SourceOf(data.l[i]).s) = "product-review" /\ IsDict(DetailsOf(data.l[i]))
    THEN {DictGet(DetailsOf(data.l[i]), "price", None)}
  ELSE IF pc = "comment" /\ IsDict(ItemsOf(data.l[i])[j])
            /\ IsDict(UserInfoOf(ItemsOf(data.l[i])[j]))
            /\ ShapeOf(ItemsOf(data.l[i])[j]) = "review"
    THEN {DictGet(ItemsOf(data.l[i])[j], "review_star_rating", None)}
  ELSE {}

\* C12: the coercions never raise, whatever JSON value they are given: the
\* integer and the number coercion return a number or nothing.
C12_CoercionsNeverRaise ==
  /\ \A v \in IntArgs : parse_int(v).exc = "none"
  /\ \A v \in FloatArgs : parse_float(v).t \in {"null", "float"}

\* the Comment rows of product-review Posts whose entry has review_author "A"
\* and review_star_rating "4,5"
CommaRatingRows ==
  {k \in 1..Len(comments) :
     /\ VariantOf(SourceOf(RecordOf(CommentEvents[k])).s) = "product-review"
     /\ DictGet(EntryOf(CommentEvents[k]), "review_author", None) = JStr("A")
     /\ DictGet(EntryOf(CommentEvents[k]), "review_star_rating", None) = JStr("4,5")}

\* C13 as stated: such a row has author_name "A" and rating 4.5.
C13_CommaRatingIsFourPointFive ==
  \A k \in CommaRatingRows :
    comments[k].author_name = JStr("A") /\ comments[k].rating = JFloat(450)

\* C13, amended: such a row has author_name "A" and rating 45.0, the comma
\* being removed before the text is read as a number.
C13_CommaRatingIsFortyFive ==
  \A k \in CommaRatingRows :
    comments[k].author_name = JStr("A") /\ comments[k].rating = JFloat(45 * Hundred)

\* the review of the claim, persisted under an amazon record
C13_Witness ==
  /\ CommaRatingRows # {}
  /\ \E k \in CommaRatingRows : posts[1].row.raw_json = Amazon /\ comments[k].post_id = posts[1].id

\* the variant of the Post that the k-th Comment row belongs to
OwnerVariant(k) == VariantOf(SourceOf(RecordOf(CommentEvents[k])).s)

\* C14 as stated: rating is set only on Comments of product-review Posts and
\* karma only on Comments of discussion-thread Posts.
C14_FieldsFollowPostVariant ==
  \A k \in 1..Len(comments) :
    /\ comments[k].rating # None => OwnerVariant(k) = "product-review"
    /\ comments[k].karma # None => OwnerVariant(k) = "discussion-thread"

\* C14, amended: rating is set only on Comments whose entry has review_author,
\* and karma only on Comments whose entry has body and no review_author,
\* whatever the variant of the owning Post.
C14_FieldsFollowEntryShape ==
  \A k \in 1..Len(comments) :
    /\ comments[k].rating # None => HasKey(EntryOf(CommentEvents[k]), "review_author")
    /\ comments[k].karma # None =>
         /\ HasKey(EntryOf(CommentEvents[k]), "body")
         /\ ~HasKey(EntryOf(CommentEvents[k]), "review_author")

\* a review entry nested under a reddit record has produced a rating
C14_Witness ==
  \E k \in 1..Len(comments) :
    /\ OwnerVariant(k) = "discussion-thread"
    /\ HasKey(EntryOf(CommentEvents[k]), "review_star_rating")
    /\ comments[k].rating = JFloat(45 * Hundred)

\* C15: a Comment row is mapped by the first of review_author, body, text that
\* its entry has: the review mapping (author, content, rating by the number
\* coercion, helpful votes as text, date coerced from review_date), else the
\* discussion mapping (content from body, karma by the integer coercion, date
\* coerced from created_at), else the video mapping, whose created_at is the
\* 'time' value as it stands.
C15_EntryMappedByFirstShape ==
  \A k \in 1..Len(comments) :
    LET c == EntryOf(CommentEvents[k])
        row == comments[k]
    IN /\ HasKey(c, "review_author") =>
            /\ row.author_name = DictGet(c, "review_author", None)
            /\ row.content = DictGet(c, "content", None)
            /\ row.rating = parse_float(DictGet(c, "review_star_rating", None))
            /\ row.helpful_votes = DictGet(c, "helpful_vote_statement", None)
            /\ row.created_at = parse_date(DictGet(c, "review_date", None))
            /\ row.karma = None
       /\ (~HasKey(c, "review_author") /\ HasKey(c, "body")) =>
            /\ row.content = DictGet(c, "body", None)
            /\ row.author_name = DictGet(c, "author", None)
            /\ row.karma = parse_int(DictGet(c, "karma", None)).v
            /\ row.created_at = parse_date(DictGet(c, "created_at", None))
            /\ row.rating = None /\ row.helpful_votes = None
       /\ (~HasKey(c, "review_author") /\ ~HasKey(c, "body") /\ HasKey(c, "text")) =>
            /\ row.content = DictGet(c, "text", None)
            /\ row.author_name = DictGet(c, "author_name", None)
            /\ row.created_at = DictGet(c, "time", None)
            /\ row.rating = None /\ row.helpful_votes = None /\ row.karma = None

\* an entry with all three keys mapped as a review, and an entry with text only
\* whose time, a parseable date with a time of day, is stored as it stands
C15_Witness ==
  \E k, m \in 1..Len(comments) :
    /\ EntryOf(CommentEvents[k]) = AllShapes
    /\ comments[k].author_name = JStr("R")
    /\ comments[k].rating = JFloat(350)
    /\ EntryOf(CommentEvents[m]) = YoutubeComment
    /\ comments[m].created_at = JStr("2024-03-01 10:00:00")
    /\ parse_date(comments[m].created_at) = JStr("2024-03-01")

\* the Comment rows that came from record r
RowsOfRecord(r) == {k \in 1..Len(comments) : CommentEvents[k].rec = r}

\* the records whose handling has run to its end
FinishedRecords ==
  IF pc = "done" THEN 1..Len(data.l)
  ELSE IF pc \in {"record", "comment"} THEN 1..(i - 1)
  ELSE {}

\* the list under the key the claim names for record r: 'reviews' when the
\* record has that key, else 'comments'; <<>> when it has neither or the value
\* is no list
NamedEntries(r) ==
  LET x == IF HasKey(data.l[r], "reviews") THEN data.l[r].o["reviews"]
           ELSE IF HasKey(data.l[r], "comments") THEN data.l[r].o["comments"]
           ELSE JList(<<>>)
  IN IF IsList(x) THEN x.l ELSE <<>>

\* C16: the Comments of a record come from the entries under 'reviews' whenever
\* the record has that key, else from those under 'comments': every Comment row
\* is the mapping of the entry at its position in that list, a finished record
\* has one row per entry of that list, and so a record with both keys gets no
\* row from 'comments', even when 'reviews' is empty.
C16_ReviewsKeyTakesPrecedence ==
  /\ \A k \in 1..Len(comments) :
       LET r == CommentEvents[k].rec
           e == CommentEvents[k].entry
       IN /\ e <= Len(NamedEntries(r))
          /\ IsDict(NamedEntries(r)[e])
          /\ comments[k].content =
               CommentOf(NamedEntries(r)[e], comments[k].post_id).row.content
  /\ \A r \in FinishedRecords : Cardinality(RowsOfRecord(r)) = Len(NamedEntries(r))

\* a record with an empty 'reviews' and a non-empty 'comments' finished with no
\* row, then a record with both keys non-empty whose only row is its review
C16_Witness ==
  /\ pc = "done"
  /\ data = JList(<<AmazonOnReddit, RedditYoutube>>)
  /\ RowsOfRecord(1) = {}
  /\ Len(comments) = 1
  /\ comments[1].content = JStr("t")

IsPrefix(s, t) == Len(s) <= Len(t) /\ SubSeq(t, 1, Len(s)) = s

\* the store when insert_comment has failed on the j-th pass for record i: the
\* Post of the record and the rows of its first j-1 entries are there, and so
\* are the Post and all the rows of every earlier record
PartialRecordKept ==
  (pc = "raised" /\ error = "StorageError" /\ j >= 1) =>
    /\ \E p \in 1..Len(posts) : posts[p].id = post_id /\ posts[p].row.raw_json = data.l[i]
    /\ {CommentEvents[k].entry : k \in RowsOfRecord(i)} = 1..(j - 1)
    /\ \A k \in RowsOfRecord(i) : comments[k].post_id = post_id
    /\ \A r \in 1..(i - 1) :
         /\ \E p \in 1..Len(posts) : posts[p].row.raw_json = data.l[r] /\ PostEvents[p].rec = r
         /\ Cardinality(RowsOfRecord(r)) = Len(NamedEntries(r))

\* a step that ends in a storage failure changes no row, no step changes or
\* removes a committed row, and no step follows an exception (no retry)
NoRollbackNoRetry ==
  /\ (pc' = "raised" /\ error' = "StorageError") => (posts' = posts /\ comments' = comments)
  /\ IsPrefix(posts, posts')
  /\ IsPrefix(comments, comments')
  /\ pc # "raised"

\* C17: every insert is committed on its own and a storage failure reaches the
\* caller without retry or rollback: when the k-th Comment of a record fails,
\* the run ends with that failure, the record's Post and its first k-1 Comments
\* stay, and the rows of earlier records are neither changed nor removed.
C17_FailureKeepsCommittedRows == []PartialRecordKept /\ [][NoRollbackNoRetry]_vars

\* insert_comment failed on the second entry of the second record
C17_Witness ==
  /\ pc = "raised"
  /\ error = "StorageError"
  /\ i = 2
  /\ j = 2
  /\ Len(posts) = 2
  /\ Cardinality(RowsOfRecord(2)) = 1
  /\ Cardinality(RowsOfRecord(1)) = 3

====
